---- MODULE Spec2Model ----
(***************************************************************************)
(* A model of droid-custom's two scripts:                                  *)
(*   scripts/extract-standalone.ts   locate, parse and write out the       *)
(*                                   modules embedded in a bun executable  *)
(*   scripts/update-from-factory.ts  the update run around it              *)
(* Bytes are integers 0..255, strings are sequences of UTF-16 code units   *)
(* (integers), byte buffers are sequences of bytes.                        *)
(***************************************************************************)
EXTENDS Integers, Sequences, FiniteSets, TLC

VARIABLES
    win32,        \* the host platform of the path module (path.sep is "\" or "/")
    fileBytes,    \* exeBytes, the bytes of the input executable
    pc,           \* position of main() of the extractor
    strategies,   \* the container strategies attempted so far, in order
    embedded,     \* the blob returned by extractEmbeddedData
    parsed,       \* the ParsedStandalone returned by parseStandalone
    index,        \* writeOutputs: index of the next module of the loop
    usedPaths,    \* writeOutputs: the usedPaths table (key -> count)
    metadata,     \* writeOutputs: the metadata array
    writes,       \* every fs.writeFile performed, in order
    mkdirs,       \* every fs.mkdir performed, in order
    errors,       \* the errors thrown to main().catch, in order
    bundle,       \* the synthetic bundle the input was encoded from (ghost)
    upc,          \* position of main() of the update run
    force,        \* update run: --force was given
    hostArch,     \* update run: process.arch
    latest,       \* update run: meta.version of the installer script
    artifacts,    \* update run: the files of artifacts/ (name -> content)
    steps         \* update run: the requests, subprocesses and writes made, in order

vars == <<win32, fileBytes, pc, strategies, embedded, parsed, index, usedPaths,
          metadata, writes, mkdirs, errors, bundle,
          upc, force, hostArch, latest, artifacts, steps>>

extractVars == <<win32, fileBytes, pc, strategies, embedded, parsed, index,
                 usedPaths, metadata, writes, mkdirs, errors, bundle>>

updateVars == <<upc, force, hostArch, latest, artifacts, steps>>

----------------------------------------------------------------------------
(* Bounds of the model.                                                    *)

\* the longest module list of a path-reconstruction run
MaxModules == 3
\* the longest virtual path enumerated exhaustively over PathAlphabet
MaxPathLen == 3
\* the versions the installer script and the version file can name: 1..MaxVersion
MaxVersion == 2
\* the most virtual-root prefixes put in front of one virtual path
MaxPrefixes == 2

----------------------------------------------------------------------------
(* Strings: sequences of code units.                                       *)

Max(a, b) == IF a >= b THEN a ELSE b
Min(a, b) == IF a <= b THEN a ELSE b

\* s.slice(from) with a 0-based from
DropFirst(s, n) == SubSeq(s, n + 1, Len(s))

\* s.startsWith(p)
StartsWith(s, p) == Len(s) >= Len(p) /\ SubSeq(s, 1, Len(p)) = p

\* s.replace(/[set]/g, "")
RemoveAll(s, set) == SelectSeq(s, LAMBDA c : c \notin set)

\* s.replace(/[set]/g, by)
ReplaceAll(s, set, by) == [i \in 1..Len(s) |-> IF s[i] \in set THEN by ELSE s[i]]

\* s.replace(/^[set]+/, "")
StripLeading(s, set) ==
    LET stop == {i \in 1..Len(s) : s[i] \notin set}
        first == IF stop = {} THEN Len(s) + 1
                 ELSE CHOOSE i \in stop : \A j \in stop : i <= j
    IN  SubSeq(s, first, Len(s))

\* s.split(one separator of seps): empty segments are kept
RECURSIVE SplitOn(_, _)
SplitOn(s, seps) ==
    LET hit == {i \in 1..Len(s) : s[i] \in seps}
    IN  IF hit = {} THEN <<s>>
        ELSE LET i == CHOOSE k \in hit : \A j \in hit : k <= j
             IN  <<SubSeq(s, 1, i - 1)>> \o SplitOn(SubSeq(s, i + 1, Len(s)), seps)

\* parts.join(sep)
RECURSIVE JoinWith(_, _)
JoinWith(parts, sep) ==
    IF Len(parts) = 0 THEN <<>>
    ELSE IF Len(parts) = 1 THEN parts[1]
    ELSE parts[1] \o sep \o JoinWith(Tail(parts), sep)

UpperLetters == 65..90
LowerLetters == 97..122
Letters == UpperLetters \cup LowerLetters

\* String.prototype.toLowerCase on the code units of the model
ToLowerCase(s) == [i \in 1..Len(s) |-> IF s[i] \in UpperLetters THEN s[i] + 32 ELSE s[i]]

\* n.toString() for n >= 0
RECURSIVE DecimalDigits(_)
DecimalDigits(n) ==
    IF n < 10 THEN <<48 + n>> ELSE DecimalDigits(n \div 10) \o <<48 + (n % 10)>>

\* s.padStart(4, "0")
PadStart4(s) == IF Len(s) >= 4 THEN s ELSE [i \in 1..(4 - Len(s)) |-> 48] \o s

----------------------------------------------------------------------------
(* The path module (path.sep, path.isAbsolute, path.extname,               *)
(* path.resolve), per platform.                                            *)

\* "/" and "\"
Separators(w) == IF w THEN {47, 92} ELSE {47}

\* path.sep
PathSep(w) == IF w THEN <<92>> ELSE <<47>>

\* path.isAbsolute
IsAbsolute(w, p) ==
    /\ Len(p) > 0
    /\ \/ p[1] \in Separators(w)
       \/ w /\ Len(p) >= 3 /\ p[1] \in Letters /\ p[2] = 58 /\ p[3] \in Separators(w)

\* path.extname: from the last "." of the last segment, unless there is no ".",
\* the "." starts the segment, or the segment is ".."
ExtName(w, p) ==
    LET rooted  == IF w /\ Len(p) >= 2 /\ p[1] \in Letters /\ p[2] = 58 THEN 2 ELSE 0
        nonSep  == {i \in (rooted + 1)..Len(p) : p[i] \notin Separators(w)}
        endIx   == IF nonSep = {} THEN 0 ELSE CHOOSE i \in nonSep : \A j \in nonSep : j <= i
        seps    == {i \in (rooted + 1)..endIx : p[i] \in Separators(w)}
        startIx == IF seps = {} THEN rooted + 1
                   ELSE 1 + CHOOSE i \in seps : \A j \in seps : j <= i
        dots    == {i \in startIx..endIx : p[i] = 46}
        lastDot == IF dots = {} THEN 0 ELSE CHOOSE i \in dots : \A j \in dots : j <= i
    IN  IF endIx = 0 \/ lastDot = 0 THEN <<>>
        ELSE IF lastDot = startIx THEN <<>>
        ELSE IF p[startIx] = 46 /\ lastDot = endIx /\ lastDot = startIx + 1 THEN <<>>
        ELSE SubSeq(p, lastDot, endIx)

\* the segments of an absolute path after "." and ".." are resolved
RECURSIVE NormalizeSegments(_, _)
NormalizeSegments(done, rest) ==
    IF Len(rest) = 0 THEN done
    ELSE LET s == Head(rest)
         IN  IF s = <<>> \/ s = <<46>> THEN NormalizeSegments(done, Tail(rest))
             ELSE IF s = <<46, 46>>
                  THEN NormalizeSegments(IF Len(done) = 0 THEN done
                                         ELSE SubSeq(done, 1, Len(done) - 1), Tail(rest))
                  ELSE NormalizeSegments(Append(done, s), Tail(rest))

\* path.resolve(base, rel) with base an absolute path given as its segments;
\* the result is the list of segments of the absolute path
Resolve(w, base, rel) ==
    NormalizeSegments(IF IsAbsolute(w, rel) THEN <<>> ELSE base,
                      SplitOn(rel, Separators(w)))

----------------------------------------------------------------------------
(* Path Reconstructor: sanitizeModulePath and chooseRelativePath.          *)

\* one code unit, matched under the /i flag when it is a letter
AnyCase(c) == IF c \in UpperLetters THEN {c, c + 32}
              ELSE IF c \in LowerLetters THEN {c, c - 32} ELSE {c}

IgnoreCase(lit) == [i \in 1..Len(lit) |-> AnyCase(lit[i])]
Exactly(lit) == [i \in 1..Len(lit) |-> {lit[i]}]

\* the literals of the prefix patterns
TildeBunRoot == <<58, 47, 126, 66, 85, 78, 47, 114, 111, 111, 116, 47>>  \* ":/~BUN/root/"
TildeBun     == <<58, 47, 126, 66, 85, 78, 47>>                          \* ":/~BUN/"
BunfsRoot    == <<47, 36, 98, 117, 110, 102, 115, 47, 114, 111, 111, 116, 47>>  \* "/$bunfs/root/"
Bunfs        == <<47, 36, 98, 117, 110, 102, 115, 47>>                   \* "/$bunfs/"
DotSlash     == <<46, 47>>                                               \* "./"
RootSlash    == <<114, 111, 111, 116, 47>>                               \* "root/"
SlashRoot    == <<47, 114, 111, 111, 116, 47>>                           \* "/root/"

\* the prefixes array: each pattern is anchored at the start, cls is the class of
\* code units accepted at each position, and plus says the last class repeats (x+)
prefixes == <<
    [cls |-> IgnoreCase(<<66>>) \o IgnoreCase(TildeBunRoot), plus |-> FALSE],
    [cls |-> <<Letters>> \o IgnoreCase(TildeBunRoot),        plus |-> FALSE],
    [cls |-> Exactly(BunfsRoot),                              plus |-> FALSE],
    [cls |-> IgnoreCase(<<66>>) \o IgnoreCase(TildeBun),     plus |-> FALSE],
    [cls |-> <<Letters>> \o IgnoreCase(TildeBun),            plus |-> FALSE],
    [cls |-> Exactly(Bunfs),                                  plus |-> FALSE],
    [cls |-> Exactly(DotSlash),                               plus |-> TRUE],
    [cls |-> Exactly(RootSlash),                              plus |-> FALSE],
    [cls |-> Exactly(SlashRoot),                              plus |-> FALSE] >>

\* prefix.test(rel)
PrefixTest(prefix, rel) ==
    /\ Len(rel) >= Len(prefix.cls)
    /\ \A i \in 1..Len(prefix.cls) : rel[i] \in prefix.cls[i]

\* rel.replace(prefix, "") when the prefix matches
PrefixReplace(prefix, rel) ==
    LET n    == Len(prefix.cls)
        rest == DropFirst(rel, n)
    IN  IF prefix.plus THEN StripLeading(rest, prefix.cls[n]) ELSE rest

\* the for loop over prefixes, from pattern k on
RECURSIVE StripPrefixesMutant(_, _)
StripPrefixesMutant(rel, k) ==
    IF k > Len(prefixes) THEN rel
    ELSE IF PrefixTest(prefixes[k], rel) THEN PrefixReplace(prefixes[k], rel)
    ELSE StripPrefixesMutant(rel, k + 1)
RECURSIVE StripPrefixes(_, _)
StripPrefixes(rel, k) ==
    IF k > Len(prefixes) THEN rel
    ELSE StripPrefixes(IF PrefixTest(prefixes[k], rel)
                       THEN PrefixReplace(prefixes[k], rel) ELSE rel, k + 1)

\* : * ? " < > |
IllegalChars == {58, 42, 63, 34, 60, 62, 124}

\* the filter of sanitizeModulePath: part !== "" && part !== ".."
KeepPartMutant(part) == part # <<>>
KeepPart(part) == part # <<>> /\ part # <<46, 46>>

sanitizeModulePath(original) ==
    LET noNul    == RemoveAll(original, {0})
        stripped == StripPrefixes(noNul, 1)
        legal    == ReplaceAll(stripped, IllegalChars, 95)
        noCr     == RemoveAll(legal, {13})
        slashes  == ReplaceAll(noCr, {92}, 47)
        noDots   == StripLeading(slashes, {46})
        parts    == SelectSeq(SplitOn(noDots, {47}), KeepPart)
    IN  JoinWith(parts, <<47>>)

\* loaderDefaultExtensions
loaderDefaultExtensions ==
    [l \in 0..18 |->
        CASE l = 0 -> <<46, 106, 115, 120>>                 \* ".jsx"
          [] l = 1 -> <<46, 106, 115>>                      \* ".js"
          [] l = 2 -> <<46, 116, 115>>                      \* ".ts"
          [] l = 3 -> <<46, 116, 115, 120>>                 \* ".tsx"
          [] l = 4 -> <<46, 99, 115, 115>>                  \* ".css"
          [] l = 5 -> <<>>                                  \* ""
          [] l \in {6, 7} -> <<46, 106, 115, 111, 110>>     \* ".json"
          [] l = 8 -> <<46, 116, 111, 109, 108>>            \* ".toml"
          [] l = 9 -> <<46, 119, 97, 115, 109>>             \* ".wasm"
          [] l = 10 -> <<46, 110, 111, 100, 101>>           \* ".node"
          [] l \in {11, 12, 13} -> <<46, 116, 120, 116>>    \* ".txt"
          [] l = 14 -> <<46, 115, 104>>                     \* ".sh"
          [] l \in {15, 16} -> <<46, 115, 113, 108, 105, 116, 101>>  \* ".sqlite"
          [] l = 17 -> <<46, 104, 116, 109, 108>>           \* ".html"
          [] OTHER -> <<46, 121, 97, 109, 108>>]            \* ".yaml"

\* loaderDefaultExtensions[module.loader] ?? ".bin"
FallbackExt(loader) ==
    IF loader \in DOMAIN loaderDefaultExtensions
    THEN loaderDefaultExtensions[loader] ELSE <<46, 98, 105, 110>>

\* `module-${index.toString().padStart(4, "0")}`
ModuleName(ix) == <<109, 111, 100, 117, 108, 101, 45>> \o PadStart4(DecimalDigits(ix))

\* the fallback name of a module: module-XXXX and the extension of its loader
FallbackName(module, ix) == ModuleName(ix) \o FallbackExt(module.loader)

\* if (!candidate) candidate = fallback
IfEmpty(candidate, module, ix) ==
    IF candidate = << >> THEN FallbackName(module, ix) ELSE candidate

\* if (candidate === "" || path.isAbsolute(candidate)) candidate = fallback
IfEmptyOrAbsolute(w, candidate, module, ix) ==
    IF candidate = << >> \/ IsAbsolute(w, candidate) THEN FallbackName(module, ix) ELSE candidate

\* candidate.split(/[\\/]+/).filter(Boolean).join(path.sep)
Normalized(w, candidate) ==
    JoinWith(SelectSeq(SplitOn(candidate, {47, 92}), LAMBDA part : part # << >>), PathSep(w))

\* if (!finalPath) finalPath = module-XXXX
IfNoPath(joined, ix) == IF joined = << >> THEN ModuleName(ix) ELSE joined

\* the path of chooseRelativePath before the collision table is consulted
FinalPath(w, module, ix) ==
    IfNoPath(
        Normalized(w,
            IfEmptyOrAbsolute(w,
                StripLeading(IfEmpty(sanitizeModulePath(module.originalPath), module, ix),
                             {47, 92}),
                module, ix)),
        ix)

\* used.has(key)
UsedHas(used, key) == key \in DOMAIN used

\* the count chooseRelativePath stores for a key it has seen before
NextCountMutant(used, key) == used[key]
NextCount(used, key) == used[key] + 1

\* used.set(key, count)
UsedSet(used, key, count) == [k \in DOMAIN used \cup {key} |-> IF k = key THEN count ELSE used[k]]

\* `${base}.${count}${ext}` with ext = path.extname(finalPath)
WithCount(finalPath, count, ext) ==
    SubSeq(finalPath, 1, Len(finalPath) - Len(ext)) \o <<46>> \o DecimalDigits(count) \o ext

\* the collision table of chooseRelativePath, for the final path and its key
ResolveCollision(w, finalPath, key, used) ==
    IF UsedHas(used, key)
    THEN [path |-> WithCount(finalPath, NextCount(used, key), ExtName(w, finalPath)),
          used |-> UsedSet(used, key, NextCount(used, key))]
    ELSE [path |-> finalPath, used |-> UsedSet(used, key, 1)]

WithKey(w, finalPath, used) == ResolveCollision(w, finalPath, ToLowerCase(finalPath), used)

\* chooseRelativePath: the path returned and the table afterwards
chooseRelativePath(w, module, ix, used) == WithKey(w, FinalPath(w, module, ix), used)

----------------------------------------------------------------------------
(* Byte buffers: Uint8Array and DataView.                                  *)

\* "\n---- Bun! ----\n"
TRAILER_BYTES == <<10, 45, 45, 45, 45, 32, 66, 117, 110, 33, 32, 45, 45, 45, 45, 10>>
OFFSETS_SIZE == 32
MODULE_RECORD_SIZE == 40
\* alternateSize
ALTERNATE_SIZE == 36
\* the stride of the PE section table
SECTION_ENTRY_SIZE == 40
\* the size of the DOS header and the offset of its e_lfanew field
DOS_HEADER_SIZE == 64
E_LFANEW == 60
\* "MZ" and "PE\0\0" read as little-endian integers
MZ_MAGIC == 23117
PE_SIGNATURE == 17744
\* Number.MAX_SAFE_INTEGER = 2^53 - 1, as the upper 32 bits of a u64
MAX_SAFE_HIGH == 2097151

\* bytes.subarray(from, to), 0-based, clamped to the buffer
Subarray(bytes, from, to) ==
    SubSeq(bytes, Min(Max(from, 0), Len(bytes)) + 1, Min(Max(to, 0), Len(bytes)))

\* view.getUint16(off, true), view.getUint32(off, true)
GetUint16(bytes, off) == bytes[off + 1] + 256 * bytes[off + 2]
GetUint32(bytes, off) ==
    bytes[off + 1] + 256 * bytes[off + 2] + 65536 * bytes[off + 3] + 16777216 * bytes[off + 4]

\* view.getBigUint64(off, true): the value is hi * 2^32 + lo
GetBigUint64(bytes, off) == [lo |-> GetUint32(bytes, off), hi |-> GetUint32(bytes, off + 4)]

\* comparisons of a BigInt with a number of at most 2^31 - 1, and with
\* Number.MAX_SAFE_INTEGER
BigIsZero(big) == big.hi = 0 /\ big.lo = 0
BigGreater(big, n) == big.hi > 0 \/ big.lo > n
BigAboveMaxSafe(big) == big.hi > MAX_SAFE_HIGH

\* lastIndexOfSubarray: the 0-based index of the last occurrence, or -1
lastIndexOfSubarray(haystack, needle) ==
    IF Len(needle) = 0 \/ Len(haystack) < Len(needle) THEN -1
    ELSE LET hits == {i \in 0..(Len(haystack) - Len(needle)) :
                        SubSeq(haystack, i + 1, i + Len(needle)) = needle}
         IN  IF hits = {} THEN -1 ELSE CHOOSE i \in hits : \A j \in hits : j <= i

\* textDecoder.decode (utf-8, not fatal): one- and two-byte sequences are decoded,
\* every other byte becomes U+FFFD
RECURSIVE TextDecode(_)
TextDecode(bytes) ==
    IF Len(bytes) = 0 THEN << >>
    ELSE IF bytes[1] < 128 THEN <<bytes[1]>> \o TextDecode(Tail(bytes))
    ELSE IF bytes[1] \in 194..223 /\ Len(bytes) >= 2 /\ bytes[2] \in 128..191
    THEN <<(bytes[1] - 192) * 64 + (bytes[2] - 128)>> \o TextDecode(Tail(Tail(bytes)))
    ELSE <<65533>> \o TextDecode(Tail(bytes))

\* decodeAsciiNullTerminated
decodeAsciiNullTerminated(bytes) ==
    LET nuls   == {i \in 1..Len(bytes) : bytes[i] = 0}
        length == IF nuls = {} THEN Len(bytes)
                  ELSE (CHOOSE i \in nuls : \A j \in nuls : i <= j) - 1
    IN  TextDecode(SubSeq(bytes, 1, length))

\* an absent optional artifact (null) and a present one
Null == [present |-> FALSE, bytes |-> <<>>]
Some(b) == [present |-> TRUE, bytes |-> b]

Threw(message) == [ok |-> FALSE, err |-> message]
Returned(value) == [ok |-> TRUE, value |-> value]

----------------------------------------------------------------------------
(* Container Locator: extractBunSection, extractTrailerAppendedBlob.       *)

DotBun == <<46, 98, 117, 110>>                                  \* ".bun"

\* the for loop of extractBunSection over the section table, from section i on
RECURSIVE ScanSections(_, _, _, _)
ScanSections(fb, sectionTableOffset, numberOfSections, i) ==
    IF i >= numberOfSections THEN Threw("no .bun section")
    ELSE LET sectionOffset == sectionTableOffset + i * SECTION_ENTRY_SIZE
         IN  IF sectionOffset + SECTION_ENTRY_SIZE > Len(fb) THEN Threw("section entry out of range")
             ELSE IF decodeAsciiNullTerminated(Subarray(fb, sectionOffset, sectionOffset + 8)) # DotBun
             THEN ScanSections(fb, sectionTableOffset, numberOfSections, i + 1)
             ELSE LET sizeOfRawData    == GetUint32(fb, sectionOffset + 16)
                      pointerToRawData == GetUint32(fb, sectionOffset + 20)
                  IN  IF \/ pointerToRawData + sizeOfRawData > Len(fb)
                         \/ pointerToRawData + 4 > Len(fb)
                      THEN Threw(".bun section out of range")
                      ELSE LET dataLength == GetUint32(fb, pointerToRawData)
                               dataStart  == pointerToRawData + 4
                               dataEnd    == dataStart + dataLength
                           IN  IF \/ dataEnd > pointerToRawData + sizeOfRawData
                                  \/ dataEnd > Len(fb)
                               THEN Threw(".bun length prefix mismatch")
                               ELSE Returned(Subarray(fb, dataStart, dataEnd))

extractBunSection(fb) ==
    IF Len(fb) < DOS_HEADER_SIZE THEN Threw("not a PE file")
    ELSE IF GetUint16(fb, 0) # MZ_MAGIC THEN Threw("not a PE file")
    ELSE LET peHeaderOffset == GetUint32(fb, E_LFANEW)
         IN  IF peHeaderOffset + 24 > Len(fb) THEN Threw("PE header out of range")
             ELSE IF GetUint32(fb, peHeaderOffset) # PE_SIGNATURE THEN Threw("no PE signature")
             ELSE LET numberOfSections     == GetUint16(fb, peHeaderOffset + 6)
                      sizeOfOptionalHeader == GetUint16(fb, peHeaderOffset + 20)
                      sectionTableOffset   == peHeaderOffset + 24 + sizeOfOptionalHeader
                  IN  IF sectionTableOffset > Len(fb) THEN Threw("section table out of range")
                      ELSE ScanSections(fb, sectionTableOffset, numberOfSections, 0)

\* the first guard of extractTrailerAppendedBlob
TooShortForTrailer(fb) == Len(fb) < Len(TRAILER_BYTES) + OFFSETS_SIZE + 8

\* the blob extractTrailerAppendedBlob slices once the length field is accepted
TrailerBlobMutant(fb, totalBytes) == Subarray(fb, Len(fb) - totalBytes, Len(fb))
TrailerBlob(fb, totalBytes) == Subarray(fb, Len(fb) - 8 - totalBytes, Len(fb) - 8)

\* extractTrailerAppendedBlob: kind is "blob" (returned), "null" (rejected) or
\* "throw" (a RangeError of the DataView)
extractTrailerAppendedBlob(fb) ==
    LET null == [kind |-> "null", blob |-> << >>]
    IN  IF TooShortForTrailer(fb) THEN null
        ELSE IF lastIndexOfSubarray(fb, TRAILER_BYTES) = -1 THEN null
        ELSE IF Len(fb) - 8 < 0 THEN [kind |-> "throw", blob |-> << >>]
        ELSE LET totalBytesBig == GetBigUint64(fb, Len(fb) - 8)
             IN  IF BigIsZero(totalBytesBig) THEN null
                 ELSE IF BigGreater(totalBytesBig, Len(fb)) THEN null
                 ELSE IF BigAboveMaxSafe(totalBytesBig) THEN null
                 ELSE LET totalBytes == totalBytesBig.lo
                          start      == Len(fb) - 8 - totalBytes
                      IN  IF start < 0 THEN null
                          ELSE IF lastIndexOfSubarray(TrailerBlob(fb, totalBytes), TRAILER_BYTES) = -1
                          THEN null
                          ELSE [kind |-> "blob", blob |-> TrailerBlob(fb, totalBytes)]

----------------------------------------------------------------------------
(* Bundle Parser: parseStandalone.                                         *)

\* readPointer
readPointerMutant(bytes, off) ==
    [offset |-> GetUint32(bytes, off + 4), length |-> GetUint32(bytes, off)]
readPointer(bytes, off) == [offset |-> GetUint32(bytes, off), length |-> GetUint32(bytes, off + 4)]

\* ptr.offset + ptr.length > n, for n < 2^31
PointerEndExceedsMutant(ptr, n) == ptr.offset > n
PointerEndExceeds(ptr, n) == ptr.offset > n \/ ptr.length > n - ptr.offset

\* slicePointer
slicePointer(bytes, ptr) ==
    IF ptr.length = 0 THEN Returned(<< >>)
    ELSE IF PointerEndExceeds(ptr, Len(bytes)) THEN Threw("pointer out of range")
    ELSE Returned(Subarray(bytes, ptr.offset, ptr.offset + ptr.length))

\* decodeUtf8
decodeUtf8(bytes, ptr) ==
    IF ptr.length = 0 THEN Returned(<< >>)
    ELSE LET slice == slicePointer(bytes, ptr)
         IN  IF slice.ok THEN Returned(TextDecode(slice.value)) ELSE slice

\* readPointerFromPayload
readPointerFromPayload(bytes, off) ==
    IF off + 8 > Len(bytes) THEN Threw("record pointer out of range")
    ELSE Returned(readPointer(bytes, off))

\* payload[i] ?? fallback
ByteOr(bytes, i, fallback) == IF i < Len(bytes) THEN bytes[i + 1] ELSE fallback

\* sourcemapPtr.length > 0 ? slicePointer(payload, sourcemapPtr) : null
OptionalSliceMutant(payload, ptr) ==
    LET slice == slicePointer(payload, ptr)
    IN  IF slice.ok THEN Returned(Some(slice.value)) ELSE slice
OptionalSlice(payload, ptr) ==
    IF ptr.length > 0
    THEN LET slice == slicePointer(payload, ptr)
         IN  IF slice.ok THEN Returned(Some(slice.value)) ELSE slice
    ELSE Returned(Null)

\* the body of the record loop of parseStandalone for the record at base
ParseRecord(payload, base) ==
    LET namePtr      == readPointerFromPayload(payload, base)
        contentsPtr  == readPointerFromPayload(payload, base + 8)
        sourcemapPtr == readPointerFromPayload(payload, base + 16)
        bytecodePtr  == readPointerFromPayload(payload, base + 24)
    IN  IF ~namePtr.ok THEN namePtr
        ELSE IF ~contentsPtr.ok THEN contentsPtr
        ELSE IF ~sourcemapPtr.ok THEN sourcemapPtr
        ELSE IF ~bytecodePtr.ok THEN bytecodePtr
        ELSE LET originalPath == decodeUtf8(payload, namePtr.value)
                 contents     == slicePointer(payload, contentsPtr.value)
                 sourcemap    == OptionalSlice(payload, sourcemapPtr.value)
                 bytecode     == OptionalSlice(payload, bytecodePtr.value)
             IN  IF ~originalPath.ok THEN originalPath
                 ELSE IF ~contents.ok THEN contents
                 ELSE IF ~sourcemap.ok THEN sourcemap
                 ELSE IF ~bytecode.ok THEN bytecode
                 ELSE Returned([originalPath |-> originalPath.value,
                                contents     |-> contents.value,
                                sourcemap    |-> sourcemap.value,
                                bytecode     |-> bytecode.value,
                                encoding     |-> ByteOr(payload, base + 32, 0),
                                loader       |-> ByteOr(payload, base + 33, 5),
                                moduleFormat |-> ByteOr(payload, base + 34, 0),
                                side         |-> ByteOr(payload, base + 35, 0)])

\* the record loop of parseStandalone, from record i on
RECURSIVE ParseRecords(_, _, _, _, _, _)
ParseRecords(payload, modulesPtr, recordSize, recordCount, i, modules) ==
    IF i >= recordCount THEN Returned(modules)
    ELSE LET record == ParseRecord(payload, modulesPtr.offset + i * recordSize)
         IN  IF ~record.ok THEN record
             ELSE ParseRecords(payload, modulesPtr, recordSize, recordCount, i + 1,
                               Append(modules, record.value))

\* the record stride chosen for a module array of the given length; 0 when the
\* length is a multiple of neither known size (parseStandalone throws)
RecordSizeMutant(length) ==
    IF length % ALTERNATE_SIZE = 0 THEN ALTERNATE_SIZE
    ELSE IF length % MODULE_RECORD_SIZE = 0 THEN MODULE_RECORD_SIZE
    ELSE 0
RecordSize(length) ==
    IF length % MODULE_RECORD_SIZE = 0 THEN MODULE_RECORD_SIZE
    ELSE IF length % ALTERNATE_SIZE = 0 THEN ALTERNATE_SIZE
    ELSE 0

\* parseStandalone: payload = blob.subarray(0, byteCount)
PayloadMutant(blob, byteCount) == blob
Payload(blob, byteCount) == Subarray(blob, 0, byteCount)

\* parseStandalone; a returned value also carries the locals the claims speak of
parseStandalone(blob) ==
    IF Len(blob) < Len(TRAILER_BYTES) + OFFSETS_SIZE THEN Threw("blob too short")
    ELSE LET trailerIndex == lastIndexOfSubarray(blob, TRAILER_BYTES)
             offsetsPos   == trailerIndex - OFFSETS_SIZE
         IN  IF trailerIndex = -1 THEN Threw("no trailer")
             ELSE IF offsetsPos < 0 THEN Threw("offsets position illegal")
             ELSE LET byteCountBig       == GetBigUint64(blob, offsetsPos)
                      modulesPtr         == readPointer(blob, offsetsPos + 8)
                      entryPointId       == GetUint32(blob, offsetsPos + 16)
                      compileExecArgvPtr == readPointer(blob, offsetsPos + 20)
                  IN  IF BigAboveMaxSafe(byteCountBig) THEN Threw("byte_count not a safe integer")
                      ELSE IF BigGreater(byteCountBig, Len(blob)) THEN Threw("byte_count out of range")
                      ELSE LET byteCount  == byteCountBig.lo
                               payload    == Payload(blob, byteCount)
                               recordSize == RecordSize(modulesPtr.length)
                           IN  IF PointerEndExceeds(modulesPtr, Len(payload))
                               THEN Threw("module table out of range")
                               ELSE IF recordSize = 0 THEN Threw("unknown record size")
                               ELSE LET recordCount == modulesPtr.length \div recordSize
                                        modules     == ParseRecords(payload, modulesPtr, recordSize,
                                                                    recordCount, 0, << >>)
                                        argv        == decodeUtf8(payload, compileExecArgvPtr)
                                    IN  IF ~modules.ok THEN modules
                                        ELSE IF ~argv.ok THEN argv
                                        ELSE [ok |-> TRUE,
                                              value |-> [modules |-> modules.value,
                                                         entryPointId |-> entryPointId,
                                                         compileExecArgv |-> argv.value],
                                              byteCount |-> byteCount,
                                              modulesPtr |-> modulesPtr,
                                              argvPtr |-> compileExecArgvPtr,
                                              recordSize |-> recordSize,
                                              recordCount |-> recordCount]

----------------------------------------------------------------------------
(* Bundle Writer: writeOutputs.                                            *)

\* path.resolve(outputDir): the output directory, as the segments of its absolute path
resolvedOutput == << <<111, 117, 116>> >>                  \* "/out"

MapSuffix      == <<46, 109, 97, 112>>                     \* ".map"
BytecodeSuffix == <<46, 98, 121, 116, 101, 99, 111, 100, 101, 46, 98, 105, 110>>  \* ".bytecode.bin"
ArgvFileName   == <<95, 95, 99, 111, 109, 112, 105, 108, 101, 95, 101, 120, 101, 99,
                    95, 97, 114, 103, 118, 46, 116, 120, 116>>  \* "__compile_exec_argv.txt"
ManifestName   == <<109, 101, 116, 97, 100, 97, 116, 97, 46, 106, 115, 111, 110>>  \* "metadata.json"

IsPrefixOf(a, b) == Len(a) <= Len(b) /\ SubSeq(b, 1, Len(a)) = a

\* targetPath.startsWith(resolvedOutputWithSep) || targetPath === resolvedOutput
InsideOutput(targetPath) == IsPrefixOf(resolvedOutput, targetPath)

\* path.dirname of an absolute path
DirName(targetPath) ==
    IF Len(targetPath) = 0 THEN targetPath ELSE SubSeq(targetPath, 1, Len(targetPath) - 1)

\* `${targetPath}${suffix}`
WithSuffix(targetPath, suffix) ==
    IF Len(targetPath) = 0 THEN <<suffix>>
    ELSE [targetPath EXCEPT ![Len(targetPath)] = @ \o suffix]

\* the file system as the run has made it: the directories fs.mkdir created
\* (with their ancestors) and the files fs.writeFile created
IsDirectory(made, path) == \E i \in 1..Len(made) : IsPrefixOf(path, made[i])
IsFile(written, path) == \E i \in 1..Len(written) : written[i].target = path

\* fs.mkdir(path, {recursive: true}) is refused when a file is in the way,
\* fs.writeFile(path) when the path is a directory
OpRefused(op, written, made) ==
    IF op.op = "mkdir"
    THEN \E n \in 1..Len(op.target) : IsFile(written, SubSeq(op.target, 1, n))
    ELSE IsDirectory(made, op.target)

\* run the file-system operations in order until one is refused or the io-th
\* one fails with an I/O error (io = 0: no I/O error)
RECURSIVE RunOps(_, _, _, _, _)
RunOps(ops, k, io, written, made) ==
    IF k > Len(ops) THEN [ok |-> TRUE, writes |-> written, mkdirs |-> made]
    ELSE IF k = io \/ OpRefused(ops[k], written, made)
    THEN [ok |-> FALSE, writes |-> written, mkdirs |-> made]
    ELSE IF ops[k].op = "mkdir"
    THEN RunOps(ops, k + 1, io, written, Append(made, ops[k].target))
    ELSE RunOps(ops, k + 1, io,
                Append(written, [kind |-> ops[k].kind, module |-> ops[k].module,
                                 target |-> ops[k].target, data |-> ops[k].data]),
                made)

MkdirOp(path) == [op |-> "mkdir", kind |-> "dir", module |-> -1, target |-> path, data |-> <<>>]
WriteOp(kind, ix, path, data) ==
    [op |-> "write", kind |-> kind, module |-> ix, target |-> path, data |-> data]

\* the sibling files of one module: `${targetPath}.map`, `${targetPath}.bytecode.bin`
SiblingOpsMutant(module, ix, targetPath) ==
    <<WriteOp("map", ix, WithSuffix(targetPath, MapSuffix), module.sourcemap.bytes),
      WriteOp("bytecode", ix, WithSuffix(targetPath, BytecodeSuffix), module.bytecode.bytes)>>
SiblingOps(module, ix, targetPath) ==
    (IF module.sourcemap.present
     THEN <<WriteOp("map", ix, WithSuffix(targetPath, MapSuffix), module.sourcemap.bytes)>>
     ELSE <<>>)
    \o
    (IF module.bytecode.present
     THEN <<WriteOp("bytecode", ix, WithSuffix(targetPath, BytecodeSuffix),
                    module.bytecode.bytes)>>
     ELSE <<>>)

\* the file-system operations of one iteration of the loop of writeOutputs
ModuleOps(module, ix, targetPath) ==
    <<MkdirOp(DirName(targetPath)), WriteOp("content", ix, targetPath, module.contents)>>
    \o SiblingOps(module, ix, targetPath)

\* the entry metadata.push adds
MetadataEntry(module, ix, relPath) ==
    [index |-> ix, originalPath |-> module.originalPath, relativePath |-> relPath,
     loader |-> module.loader, encoding |-> module.encoding,
     moduleFormat |-> module.moduleFormat, side |-> module.side,
     hasSourcemap |-> module.sourcemap.present, hasBytecode |-> module.bytecode.present]

\* the outcome of the awaited fs calls of one step: the files and directories
\* made, and the error thrown when one of them failed
AfterOps(r, pcOk) ==
    /\ writes' = r.writes
    /\ mkdirs' = r.mkdirs
    /\ pc' = IF r.ok THEN pcOk ELSE "failed"
    /\ errors' = IF r.ok THEN errors ELSE Append(errors, "io")

\* writeOutputs up to the loop: fs.mkdir(resolvedOutput)
BeginWrite ==
    /\ pc = "write"
    /\ \E io \in 0..1 : AfterOps(RunOps(<<MkdirOp(resolvedOutput)>>, 1, io, writes, mkdirs), "module")
    /\ index' = 0
    /\ usedPaths' = << >>
    /\ metadata' = << >>
    /\ UNCHANGED <<win32, fileBytes, strategies, embedded, parsed, bundle>>
    /\ UNCHANGED updateVars

\* the loop body after the path check: the fs calls, then metadata.push
WriteFiles(module, relPath, ops) ==
    \E io \in 0..Len(ops) :
        /\ AfterOps(RunOps(ops, 1, io, writes, mkdirs), "module")
        /\ IF pc' = "module"
           THEN /\ metadata' = Append(metadata, MetadataEntry(module, index, relPath))
                /\ index' = index + 1
           ELSE UNCHANGED <<metadata, index>>

\* the loop body from the path check on
WriteTarget(module, relPath, targetPath) ==
    IF ~InsideOutput(targetPath)
    THEN /\ pc' = "failed"
         /\ errors' = Append(errors, "escape")
         /\ UNCHANGED <<writes, mkdirs, metadata, index>>
    ELSE WriteFiles(module, relPath, ModuleOps(module, index, targetPath))

\* the loop body once chooseRelativePath has returned
WriteChosen(module, chosen) ==
    /\ usedPaths' = chosen.used
    /\ WriteTarget(module, chosen.path, Resolve(win32, resolvedOutput, chosen.path))

\* one iteration of the loop of writeOutputs
WriteModule ==
    /\ pc = "module"
    /\ index < Len(parsed.modules)
    /\ WriteChosen(parsed.modules[index + 1],
                   chooseRelativePath(win32, parsed.modules[index + 1], index, usedPaths))
    /\ UNCHANGED <<win32, fileBytes, strategies, embedded, parsed, bundle>>
    /\ UNCHANGED updateVars

\* the manifest object JSON.stringify is given
Manifest ==
    [modules |-> metadata, entryPointId |-> parsed.entryPointId,
     compileExecArgv |-> parsed.compileExecArgv]

\* writeOutputs after the loop: __compile_exec_argv.txt when the string is not
\* empty, then metadata.json
FinishOpsMutant ==
    <<WriteOp("manifest", -1, Append(resolvedOutput, ManifestName), Manifest)>>
    \o (IF Len(parsed.compileExecArgv) > 0
        THEN <<WriteOp("argv", -1, Append(resolvedOutput, ArgvFileName),
                       parsed.compileExecArgv \o <<10>>)>>
        ELSE <<>>)
FinishOps ==
    (IF Len(parsed.compileExecArgv) > 0
     THEN <<WriteOp("argv", -1, Append(resolvedOutput, ArgvFileName),
                    parsed.compileExecArgv \o <<10>>)>>
     ELSE <<>>)
    \o <<WriteOp("manifest", -1, Append(resolvedOutput, ManifestName), Manifest)>>

FinishWrite ==
    /\ pc = "module"
    /\ index = Len(parsed.modules)
    /\ \E io \in 0..Len(FinishOps) : AfterOps(RunOps(FinishOps, 1, io, writes, mkdirs), "done")
    /\ UNCHANGED <<win32, fileBytes, strategies, embedded, parsed, index, usedPaths,
                   metadata, bundle>>
    /\ UNCHANGED updateVars

----------------------------------------------------------------------------
(* The update run is not part of an extractor run, and conversely.         *)

UpdateIdle ==
    /\ upc = "idle"
    /\ force = FALSE
    /\ hostArch = "x64"
    /\ latest = 0
    /\ artifacts = << >>
    /\ steps = << >>

----------------------------------------------------------------------------
(* Path reconstruction runs: writeOutputs on a parsed module list.         *)

\* the virtual paths of the multi-module runs
PathAB       == <<97, 47, 98, 46, 106, 115>>                     \* "a/b.js"
PathABUpper  == <<65, 47, 66, 46, 106, 115>>                     \* "A/B.js"
PathAB2      == <<97, 47, 98, 46, 50, 46, 106, 115>>             \* "a/b.2.js"
PathABBack   == <<97, 92, 98, 46, 106, 115>>                     \* "a\b.js"
PathABMount  == <<66, 58, 47, 126, 66, 85, 78, 47, 114, 111, 111, 116, 47,
                  97, 47, 98, 46, 106, 115>>                     \* "B:/~BUN/root/a/b.js"
PathEscape   == <<46, 46, 47, 46, 46, 47, 101, 116, 99, 47, 112, 97, 115, 115, 119, 100>>
                                                                 \* "../../etc/passwd"
PathDotOnly  == <<47, 46>>                                       \* "/."
PathNoExt    == <<97>>                                           \* "a"
PathEmpty    == << >>

CuratedPaths ==
    {PathAB, PathABUpper, PathAB2, PathABBack, PathABMount, PathEscape,
     PathDotOnly, PathNoExt, PathEmpty}

\* the code units of the exhaustively enumerated paths:
\* "a", "A", ".", "/", "\", ":", NUL, CR
PathAlphabet == {97, 65, 46, 47, 92, 58, 0, 13}

RECURSIVE StringsUpTo(_, _)
StringsUpTo(alphabet, n) ==
    IF n = 0 THEN {<< >>}
    ELSE LET shorter == StringsUpTo(alphabet, n - 1)
         IN  shorter \cup {Append(s, c) : s \in shorter, c \in alphabet}

\* virtual-root prefixes put in front of the enumerated paths
MountPrefixes ==
    {<< >>,
     <<99, 58, 47, 126, 98, 117, 110, 47, 114, 111, 111, 116, 47>>,   \* "c:/~bun/root/"
     <<47, 36, 98, 117, 110, 102, 115, 47>>,                          \* "/$bunfs/"
     <<67, 58, 92>>}                                                  \* "C:\"

EnumeratedPaths ==
    {pre \o s : pre \in MountPrefixes, s \in StringsUpTo(PathAlphabet, MaxPathLen)}

\* a parsed module with the given virtual path and loader tag
PathModule(path, loader) ==
    [originalPath |-> path, contents |-> << >>, sourcemap |-> Null, bytecode |-> Null,
     encoding |-> 0, loader |-> loader, moduleFormat |-> 0, side |-> 0]

\* loader tags: js, file, and one that is not in the table
PathLoaders == {1, 5, 99}

CuratedModules ==
    {PathModule(p, 1) : p \in CuratedPaths} \cup {PathModule(PathEmpty, l) : l \in PathLoaders}

PathRuns ==
    UNION {[1..n -> CuratedModules] : n \in 0..MaxModules}
    \cup {<<PathModule(p, 1)>> : p \in EnumeratedPaths}

InitPath ==
    /\ win32 \in BOOLEAN
    /\ fileBytes = << >>
    /\ pc = "write"
    /\ strategies = << >>
    /\ embedded = << >>
    /\ \E ms \in PathRuns :
        /\ parsed = [modules |-> ms, entryPointId |-> 0, compileExecArgv |-> << >>]
        /\ bundle = [modules |-> ms, entryPointId |-> 0, compileExecArgv |-> << >>]
    /\ index = 0
    /\ usedPaths = << >>
    /\ metadata = << >>
    /\ writes = << >>
    /\ mkdirs = << >>
    /\ errors = << >>
    /\ UpdateIdle

NextPath == BeginWrite \/ WriteModule \/ FinishWrite

SpecPath == InitPath /\ [][NextPath]_vars

----------------------------------------------------------------------------
(* Prefix runs: writeOutputs on one module whose virtual path begins with  *)
(* virtual-root prefixes, written in several letter cases.                 *)

PrefixLiterals ==
    {<<66>> \o TildeBunRoot,                                          \* "B:/~BUN/root/"
     <<98, 58, 47, 126, 98, 117, 110, 47, 82, 79, 79, 84, 47>>,       \* "b:/~bun/ROOT/"
     <<67>> \o TildeBunRoot,                                          \* "C:/~BUN/root/"
     <<66>> \o TildeBun,                                              \* "B:/~BUN/"
     <<99, 58, 47, 126, 98, 117, 110, 47>>,                           \* "c:/~bun/"
     BunfsRoot,                                                       \* "/$bunfs/root/"
     <<47, 36, 66, 85, 78, 70, 83, 47, 114, 111, 111, 116, 47>>,      \* "/$BUNFS/root/"
     Bunfs,                                                           \* "/$bunfs/"
     <<47, 36, 66, 117, 110, 102, 115, 47>>,                          \* "/$Bunfs/"
     DotSlash,                                                        \* "./"
     <<46, 47, 47>>,                                                  \* ".//"
     RootSlash,                                                       \* "root/"
     <<82, 79, 79, 84, 47>>,                                          \* "ROOT/"
     SlashRoot,                                                       \* "/root/"
     <<47, 82, 111, 111, 116, 47>>}                                   \* "/Root/"

PathXJs == <<120, 46, 106, 115>>                                      \* "x.js"

\* up to n prefixes in a row
RECURSIVE PrefixChains(_)
PrefixChains(n) ==
    IF n = 0 THEN {<< >>}
    ELSE PrefixChains(n - 1) \cup {pre \o c : pre \in PrefixLiterals, c \in PrefixChains(n - 1)}

PrefixRuns ==
    {<<PathModule(c \o t, 1)>> : c \in PrefixChains(MaxPrefixes), t \in {PathXJs, PathEmpty}}

InitPrefix ==
    /\ win32 \in BOOLEAN
    /\ fileBytes = << >>
    /\ pc = "write"
    /\ strategies = << >>
    /\ embedded = << >>
    /\ \E ms \in PrefixRuns :
        /\ parsed = [modules |-> ms, entryPointId |-> 0, compileExecArgv |-> << >>]
        /\ bundle = [modules |-> ms, entryPointId |-> 0, compileExecArgv |-> << >>]
    /\ index = 0
    /\ usedPaths = << >>
    /\ metadata = << >>
    /\ writes = << >>
    /\ mkdirs = << >>
    /\ errors = << >>
    /\ UpdateIdle

SpecPrefix == InitPrefix /\ [][NextPath]_vars

----------------------------------------------------------------------------
(* main() of the extractor up to writeOutputs.                             *)

\* extractEmbeddedData: the catch block is entered only when the try block threw
AfterSectionMutant(section) == "fallback"
AfterSection(section) == IF section.ok THEN "parse" ELSE "fallback"

\* extractEmbeddedData: the try block (strategy A, extractBunSection)
LocateSection ==
    /\ pc = "locate"
    /\ strategies' = Append(strategies, "section")
    /\ pc' = AfterSection(extractBunSection(fileBytes))
    /\ embedded' = IF pc' = "parse" THEN extractBunSection(fileBytes).value ELSE embedded
    /\ UNCHANGED <<win32, fileBytes, parsed, index, usedPaths, metadata, writes, mkdirs,
                   errors, bundle>>
    /\ UNCHANGED updateVars

\* extractEmbeddedData: the catch block (strategy B, extractTrailerAppendedBlob)
LocateTrailer ==
    /\ pc = "fallback"
    /\ strategies' = Append(strategies, "trailer")
    /\ LET fallback == extractTrailerAppendedBlob(fileBytes)
       IN  IF fallback.kind = "blob"
           THEN /\ embedded' = fallback.blob
                /\ pc' = "parse"
                /\ UNCHANGED errors
           ELSE /\ pc' = "failed"
                /\ errors' = Append(errors, IF fallback.kind = "null"
                                            THEN "no section and no trailer"
                                            ELSE "RangeError")
                /\ UNCHANGED embedded
    /\ UNCHANGED <<win32, fileBytes, parsed, index, usedPaths, metadata, writes, mkdirs, bundle>>
    /\ UNCHANGED updateVars

\* main: parseStandalone(embedded)
ParseEmbedded ==
    /\ pc = "parse"
    /\ LET result == parseStandalone(embedded)
       IN  IF result.ok
           THEN /\ parsed' = result.value
                /\ pc' = "write"
                /\ UNCHANGED errors
           ELSE /\ pc' = "failed"
                /\ errors' = Append(errors, result.err)
                /\ UNCHANGED parsed
    /\ UNCHANGED <<win32, fileBytes, strategies, embedded, index, usedPaths, metadata,
                   writes, mkdirs, bundle>>
    /\ UNCHANGED updateVars

----------------------------------------------------------------------------
(* The input executables: synthetic bundles, encoded in the payload layout *)
(* and put in a container, some of them damaged.                           *)

\* the most records of an enumerated bundle
MaxRecords == 2

Zeros(n) == [i \in 1..n |-> 0]
LE16(n) == <<n % 256, (n \div 256) % 256>>
LE32(n) == <<n % 256, (n \div 256) % 256, (n \div 65536) % 256, (n \div 16777216) % 256>>
LE64(big) == LE32(big.lo) \o LE32(big.hi)
PointerBytes(ptr) == LE32(ptr.offset) \o LE32(ptr.length)

\* TextEncoder.encode for code units below U+0800
RECURSIVE TextEncode(_)
TextEncode(str) ==
    IF Len(str) = 0 THEN << >>
    ELSE (IF str[1] < 128 THEN <<str[1]>>
          ELSE <<192 + (str[1] \div 64), 128 + (str[1] % 64)>>) \o TextEncode(Tail(str))

\* the modules of the enumerated bundles: "a.js" (contents only), "é/b" (source
\* map and bytecode), and a module with no name
BundleModules ==
    { [originalPath |-> <<97, 46, 106, 115>>, contents |-> <<1, 2, 3>>,
       sourcemap |-> Null, bytecode |-> Null,
       encoding |-> 0, loader |-> 1, moduleFormat |-> 1, side |-> 0],
      [originalPath |-> <<233, 47, 98>>, contents |-> <<4>>,
       sourcemap |-> Some(<<5, 6>>), bytecode |-> Some(<<7>>),
       encoding |-> 1, loader |-> 5, moduleFormat |-> 2, side |-> 1],
      [originalPath |-> << >>, contents |-> << >>,
       sourcemap |-> Some(<<8>>), bytecode |-> Null,
       encoding |-> 2, loader |-> 99, moduleFormat |-> 0, side |-> 0] }

\* the least record count n > 0 for which n legacy records are as long as a whole
\* number of primary records
AmbiguousCount ==
    CHOOSE n \in 1..MODULE_RECORD_SIZE :
        /\ (n * ALTERNATE_SIZE) % MODULE_RECORD_SIZE = 0
        /\ \A m \in 1..(n - 1) : (m * ALTERNATE_SIZE) % MODULE_RECORD_SIZE # 0

\* the module lists: every list of at most MaxRecords modules, and for each
\* module the list of AmbiguousCount copies of it less one, and of it
ModuleLists ==
    UNION {[1..n -> BundleModules] : n \in 0..MaxRecords}
    \cup {[i \in 1..n |-> m] : m \in BundleModules, n \in {AmbiguousCount - 1, AmbiguousCount}}

\* a synthetic bundle: its modules, the two scalars and the record stride
Bundles ==
    [modules : ModuleLists, entryPointId : {1},
     compileExecArgv : {<< >>, <<45, 120>>}, stride : {MODULE_RECORD_SIZE, ALTERNATE_SIZE}]

\* the bytes of one module in the data region of the payload: its name, contents,
\* source map and bytecode, one after the other
ModuleData(m) == TextEncode(m.originalPath) \o m.contents \o m.sourcemap.bytes \o m.bytecode.bytes

\* the data region: the modules' bytes in record order
RECURSIVE EncodeData(_)
EncodeData(modules) ==
    IF Len(modules) = 0 THEN << >> ELSE ModuleData(Head(modules)) \o EncodeData(Tail(modules))

\* the offset of module i's bytes in the data region
RECURSIVE DataOffset(_, _)
DataOffset(modules, i) ==
    IF i = 1 THEN 0 ELSE DataOffset(modules, i - 1) + Len(ModuleData(modules[i - 1]))

\* the four pointers of module i
ModulePointers(modules, i) ==
    LET m        == modules[i]
        nameLen  == Len(TextEncode(m.originalPath))
        nameOff  == DataOffset(modules, i)
        contOff  == nameOff + nameLen
        mapOff   == contOff + Len(m.contents)
        codeOff  == mapOff + Len(m.sourcemap.bytes)
    IN  [name      |-> [offset |-> nameOff, length |-> nameLen],
         contents  |-> [offset |-> contOff, length |-> Len(m.contents)],
         sourcemap |-> [offset |-> mapOff, length |-> Len(m.sourcemap.bytes)],
         bytecode  |-> [offset |-> codeOff, length |-> Len(m.bytecode.bytes)]]

\* a pointer that ends one byte past a payload of n bytes
PastEnd(n) == [offset |-> n, length |-> 1]
\* a pointer of length 0 far outside the payload
FarEmpty(n) == [offset |-> n + 1000, length |-> 0]

\* the damage done to a payload; "none" is an intact one
PayloadFaults ==
    {"none", "no trailer", "blob too short", "trailer first", "byteCount too large",
     "byteCount unsafe", "modules end", "stride", "name pointer", "contents pointer",
     "sourcemap pointer", "bytecode pointer", "argv pointer", "far empty pointer"}

\* one module record: four pointers, four tags, padding up to the stride
EncodeRecord(m, ptrs, stride) ==
    PointerBytes(ptrs.name) \o PointerBytes(ptrs.contents) \o PointerBytes(ptrs.sourcemap)
    \o PointerBytes(ptrs.bytecode) \o <<m.encoding, m.loader, m.moduleFormat, m.side>>
    \o Zeros(stride - 36)

\* the pointers of module i as the damage leaves them: it hits the first record
DamagedPointers(modules, i, fault, byteCount) ==
    LET ptrs == ModulePointers(modules, i)
    IN  IF i # 1 THEN ptrs
        ELSE CASE fault = "name pointer" -> [ptrs EXCEPT !.name = PastEnd(byteCount)]
               [] fault = "contents pointer" -> [ptrs EXCEPT !.contents = PastEnd(byteCount)]
               [] fault = "sourcemap pointer" -> [ptrs EXCEPT !.sourcemap = PastEnd(byteCount)]
               [] fault = "bytecode pointer" -> [ptrs EXCEPT !.bytecode = PastEnd(byteCount)]
               [] fault = "far empty pointer" /\ ptrs.sourcemap.length = 0 ->
                      [ptrs EXCEPT !.sourcemap = FarEmpty(byteCount)]
               [] OTHER -> ptrs

\* the module record array, from record i on
RECURSIVE EncodeRecords(_, _, _, _, _)
EncodeRecords(modules, i, stride, fault, byteCount) ==
    IF i > Len(modules) THEN << >>
    ELSE EncodeRecord(modules[i], DamagedPointers(modules, i, fault, byteCount), stride)
         \o EncodeRecords(modules, i + 1, stride, fault, byteCount)

\* the blob of a bundle: data, argv, records, four bytes of padding (byteCount
\* ends here), offset table, trailer
EncodeBlob(b, fault) ==
    LET data       == EncodeData(b.modules)
        argv       == TextEncode(b.compileExecArgv)
        argvOffset == Len(data)
        tableStart == argvOffset + Len(argv)
        tableLen   == Len(b.modules) * b.stride
        byteCount  == tableStart + tableLen + 4
        records    == EncodeRecords(b.modules, 1, b.stride, fault, byteCount)
        count      == CASE fault = "byteCount too large" ->
                             [lo |-> byteCount + OFFSETS_SIZE + Len(TRAILER_BYTES) + 1, hi |-> 0]
                        [] fault = "byteCount unsafe" -> [lo |-> byteCount, hi |-> MAX_SAFE_HIGH + 1]
                        [] OTHER -> [lo |-> byteCount, hi |-> 0]
        modulesPtr == CASE fault = "modules end" ->
                             [offset |-> tableStart, length |-> tableLen + MODULE_RECORD_SIZE * ALTERNATE_SIZE]
                        [] fault = "stride" -> [offset |-> tableStart, length |-> tableLen + 1]
                        [] OTHER -> [offset |-> tableStart, length |-> tableLen]
        argvPtr    == CASE fault = "argv pointer" -> PastEnd(byteCount)
                        [] fault = "far empty pointer" /\ Len(argv) = 0 -> FarEmpty(byteCount)
                        [] OTHER -> [offset |-> argvOffset, length |-> Len(argv)]
        offsets    == LE64(count) \o PointerBytes(modulesPtr) \o LE32(b.entryPointId)
                      \o PointerBytes(argvPtr) \o Zeros(4)
        trailer    == IF fault = "no trailer" THEN Zeros(Len(TRAILER_BYTES)) ELSE TRAILER_BYTES
    IN  CASE fault = "blob too short" -> TRAILER_BYTES
          [] fault = "trailer first" -> TRAILER_BYTES \o Zeros(OFFSETS_SIZE)
          [] OTHER -> data \o argv \o records \o Zeros(4) \o offsets \o trailer

\* the containers a blob is put in
Containers ==
    {"pe", "pe without section", "pe length mismatch", "pe then trailer",
     "pe and trailer", "trailer", "bare", "stub"}

\* the damage done to the length field of a trailing blob
LengthFaults == {"none", "zero", "beyond file", "unsafe", "before start", "short slice", "shifted"}

\* the bytes of a host executable that is no PE file
HostStub == <<127, 69, 76, 70, 0, 0, 0, 0>>

SectionName(name) == name \o Zeros(8 - Len(name))
DotText == <<46, 116, 101, 120, 116>>                           \* ".text"

\* one entry of the section table
SectionEntry(name, sizeOfRawData, pointerToRawData) ==
    SectionName(name) \o Zeros(8) \o LE32(sizeOfRawData) \o LE32(pointerToRawData) \o Zeros(16)

\* a PE file: DOS header, PE header, a .text section and, when withBun, a .bun
\* section holding the length prefix and the blob
PEFile(blob, withBun, prefix) ==
    LET count    == IF withBun THEN 2 ELSE 1
        headers  == DOS_HEADER_SIZE + 24 + count * SECTION_ENTRY_SIZE
        dos      == LE16(MZ_MAGIC) \o Zeros(E_LFANEW - 2) \o LE32(DOS_HEADER_SIZE)
        pe       == LE32(PE_SIGNATURE) \o Zeros(2) \o LE16(count) \o Zeros(12) \o LE16(0) \o Zeros(2)
        text     == SectionEntry(DotText, 4, headers)
        bun      == SectionEntry(DotBun, 4 + Len(blob), headers + 4)
    IN  dos \o pe \o text \o (IF withBun THEN bun ELSE << >>) \o Zeros(4)
        \o (IF withBun THEN LE32(prefix) \o blob ELSE << >>)

\* host \o blob \o the 8-byte length field
Appended(host, blob, lengthFault) ==
    LET fileLength == Len(host) + Len(blob) + 8
        total == CASE lengthFault = "zero" -> [lo |-> 0, hi |-> 0]
                   [] lengthFault = "beyond file" -> [lo |-> fileLength + 1, hi |-> 0]
                   [] lengthFault = "unsafe" -> [lo |-> Len(blob), hi |-> MAX_SAFE_HIGH + 1]
                   [] lengthFault = "before start" -> [lo |-> fileLength - 4, hi |-> 0]
                   [] lengthFault = "short slice" -> [lo |-> 8, hi |-> 0]
                   [] lengthFault = "shifted" -> [lo |-> Len(blob) - 1, hi |-> 0]
                   [] OTHER -> [lo |-> Len(blob), hi |-> 0]
    IN  host \o blob \o LE64(total)

\* the input executable of a bundle, a container and the damage
EncodeFile(b, container, fault, lengthFault) ==
    LET blob == EncodeBlob(b, fault)
    IN  CASE container = "pe" -> PEFile(blob, TRUE, Len(blob))
          [] container = "pe without section" -> PEFile(blob, FALSE, 0)
          [] container = "pe length mismatch" -> PEFile(blob, TRUE, Len(blob) + 1)
          [] container = "pe then trailer" -> Appended(PEFile(blob, FALSE, 0), blob, lengthFault)
          [] container = "pe and trailer" -> Appended(PEFile(blob, TRUE, Len(blob)), blob, lengthFault)
          [] container = "trailer" -> Appended(HostStub, blob, lengthFault)
          [] container = "bare" -> blob
          [] OTHER -> LE16(MZ_MAGIC)

\* the inputs: every container intact, every payload fault in a section and in
\* a trailing blob, every length fault of a trailing blob
Inputs ==
    {[container |-> c, fault |-> "none", lengthFault |-> "none"] : c \in Containers}
    \cup {[container |-> c, fault |-> f, lengthFault |-> "none"] :
            c \in {"pe", "trailer"}, f \in PayloadFaults}
    \cup {[container |-> "trailer", fault |-> "none", lengthFault |-> l] : l \in LengthFaults}

Init ==
    /\ win32 \in BOOLEAN
    /\ \E b \in Bundles, input \in Inputs :
        /\ bundle = [modules |-> b.modules, entryPointId |-> b.entryPointId,
                     compileExecArgv |-> b.compileExecArgv, stride |-> b.stride,
                     container |-> input.container, fault |-> input.fault,
                     lengthFault |-> input.lengthFault]
        /\ fileBytes = EncodeFile(b, input.container, input.fault, input.lengthFault)
    /\ pc = "locate"
    /\ strategies = << >>
    /\ embedded = << >>
    /\ parsed = [modules |-> << >>, entryPointId |-> 0, compileExecArgv |-> << >>]
    /\ index = 0
    /\ usedPaths = << >>
    /\ metadata = << >>
    /\ writes = << >>
    /\ mkdirs = << >>
    /\ errors = << >>
    /\ UpdateIdle

Next ==
    \/ LocateSection
    \/ LocateTrailer
    \/ ParseEmbedded
    \/ BeginWrite
    \/ WriteModule
    \/ FinishWrite

Spec == Init /\ [][Next]_vars

----------------------------------------------------------------------------
(* The update run: main() of scripts/update-from-factory.ts.               *)

\* the files of artifacts/ the update run reads or writes
VERSION_FILE    == "droid.version.json"
DROID_EXE       == "droid.exe"
DROID_JS        == "droid.js"
DROID_RAW       == "droid.raw.js"
DROID_OLD       == "droid.old.js"
DROID_GENERATED == "droid.generated.js"
METADATA_JSON   == "metadata.json"
ArtifactFiles ==
    {VERSION_FILE, DROID_EXE, DROID_JS, DROID_RAW, DROID_OLD, DROID_GENERATED, METADATA_JSON}

\* the content of a file: what it is, the version and architecture it is of (0 and
\* "" where it has none), whether biome formatted it, and, for the downloaded
\* executable, what its bundle holds
FileOf(kind, version, arch, holds) ==
    [kind |-> kind, version |-> version, arch |-> arch, formatted |-> FALSE, holds |-> holds]
Absent == FileOf("absent", 0, "", "")
\* a file that is not JSON
NotJson == FileOf("text", 0, "", "")
\* a JSON object; version 0: no string field "version", arch "": no string
\* field "architecture"
Snapshot(version, arch) == FileOf("snapshot", version, arch, "")

\* fileExists
fileExists(files, name) == files[name].kind # "absent"

\* resolveArchitecture; "" when it throws
resolveArchitecture(arch) ==
    CASE arch \in {"x64", "amd64"} -> "x64"
      [] arch = "arm64" -> "arm64"
      [] OTHER -> ""

\* readCurrentVersion; found is FALSE for null
NoVersion == [found |-> FALSE, version |-> 0, architecture |-> ""]
readCurrentVersion(files) ==
    IF /\ files[VERSION_FILE].kind = "snapshot"
       /\ files[VERSION_FILE].version # 0
       /\ files[VERSION_FILE].arch # ""
    THEN [found |-> TRUE, version |-> files[VERSION_FILE].version,
          architecture |-> files[VERSION_FILE].arch]
    ELSE NoVersion

\* main: the condition of the early return
ShouldSkipMutant(forced, current, version, architecture) ==
    ~forced /\ current.found /\ current.version = version
ShouldSkip(forced, current, version, architecture) ==
    /\ ~forced
    /\ current.found
    /\ current.version = version
    /\ current.architecture = architecture

\* the extractor is idle during an update run: it runs as a subprocess
ExtractIdle ==
    /\ win32 = TRUE
    /\ fileBytes = << >>
    /\ pc = "idle"
    /\ strategies = << >>
    /\ embedded = << >>
    /\ parsed = [modules |-> << >>, entryPointId |-> 0, compileExecArgv |-> << >>]
    /\ bundle = [modules |-> << >>, entryPointId |-> 0, compileExecArgv |-> << >>]
    /\ index = 0
    /\ usedPaths = << >>
    /\ metadata = << >>
    /\ writes = << >>
    /\ mkdirs = << >>
    /\ errors = << >>

\* main: argv, resolveArchitecture, mkdir
ResolveArchitecture ==
    /\ upc = "start"
    /\ upc' = IF resolveArchitecture(hostArch) = "" THEN "failed" ELSE "installer"
    /\ UNCHANGED <<force, hostArch, latest, artifacts, steps>>
    /\ UNCHANGED extractVars

\* main: fetchInstallerScript, parseInstallerScript (latest 0: no $version in it)
FetchInstallerScript ==
    /\ upc = "installer"
    /\ \E ok \in BOOLEAN :
        upc' = IF ok /\ latest # 0 THEN "check" ELSE "failed"
    /\ steps' = Append(steps, "installer")
    /\ UNCHANGED <<force, hostArch, latest, artifacts>>
    /\ UNCHANGED extractVars

\* main: readCurrentVersion and the early return
CheckCurrentVersion ==
    /\ upc = "check"
    /\ upc' = IF ShouldSkip(force, readCurrentVersion(artifacts), latest,
                            resolveArchitecture(hostArch))
              THEN "skipped" ELSE "download"
    /\ UNCHANGED <<force, hostArch, latest, artifacts, steps>>
    /\ UNCHANGED extractVars

\* what the bundle of a downloaded executable holds: a module that is written
\* to droid.exe, other modules only, or nothing the extractor can read
Holdings == {"droid.exe", "other", "damaged"}

\* main: downloadBinary, downloadSha256, verifySha, writeFile(DROID_EXE)
Download ==
    /\ upc = "download"
    /\ steps' = Append(steps, "download")
    /\ \E outcome \in {"ok", "http error", "sha mismatch"}, holds \in Holdings :
        IF outcome = "ok"
        THEN /\ artifacts' = [artifacts EXCEPT ![DROID_EXE] =
                                FileOf("binary", latest, resolveArchitecture(hostArch), holds)]
             /\ upc' = "extract"
        ELSE /\ upc' = "failed"
             /\ UNCHANGED artifacts
    /\ UNCHANGED <<force, hostArch, latest>>
    /\ UNCHANGED extractVars

\* the files of artifacts/ after the extractor subprocess exited with 0
Extracted(files) ==
    [files EXCEPT ![METADATA_JSON] = FileOf("manifest", files[DROID_EXE].version, "", ""),
                  ![DROID_EXE] = IF files[DROID_EXE].holds = "droid.exe"
                                 THEN FileOf("dump", files[DROID_EXE].version, "", "")
                                 ELSE files[DROID_EXE]]

\* runExtractor
RunExtractor ==
    /\ upc = "extract"
    /\ steps' = Append(steps, "extract")
    /\ \E exitCode \in {0, 1} :
        /\ artifacts[DROID_EXE].holds = "damaged" => exitCode = 1
        /\ IF exitCode = 0
           THEN /\ artifacts' = Extracted(artifacts)
                /\ upc' = "rotate"
           ELSE /\ upc' = "failed"
                /\ UNCHANGED artifacts
    /\ UNCHANGED <<force, hostArch, latest>>
    /\ UNCHANGED extractVars

\* rotateArtifacts: the backup of the previous droid.js
BackedUp(files) ==
    IF fileExists(files, DROID_JS)
    THEN [files EXCEPT ![DROID_OLD] = files[DROID_JS], ![DROID_JS] = Absent]
    ELSE files

\* rotateArtifacts: rename(DROID_EXE, DROID_JS), copyFile(DROID_JS, DROID_RAW)
Renamed(files) ==
    [files EXCEPT ![DROID_JS] = files[DROID_EXE],
                  ![DROID_RAW] = files[DROID_EXE],
                  ![DROID_EXE] = Absent]

\* rotateArtifacts
RotateArtifacts ==
    /\ upc = "rotate"
    /\ steps' = Append(steps, "rotate")
    /\ IF fileExists(BackedUp(artifacts), DROID_EXE)
       THEN /\ artifacts' = Renamed(BackedUp(artifacts))
            /\ upc' = "rules"
       ELSE /\ artifacts' = BackedUp(artifacts)
            /\ upc' = "failed"
    /\ UNCHANGED <<force, hostArch, latest>>
    /\ UNCHANGED extractVars

\* apply-rules.ts main: droid.generated.js is written from droid.raw.js when the
\* rules changed the text
RulesWritten(files) ==
    [files EXCEPT ![DROID_GENERATED] = FileOf("generated", files[DROID_RAW].version, "", "")]

\* runApplyRules: rm(DROID_GENERATED, { force: true })
ClearedMutant(files) == files
Cleared(files) == [files EXCEPT ![DROID_GENERATED] = Absent]

\* runApplyRules: rm(DROID_GENERATED), the subprocess; promote follows when it
\* returned true
RunApplyRules ==
    /\ upc = "rules"
    /\ steps' = Append(steps, "rules")
    /\ \E outcome \in {"changed", "unchanged", "failed"} :
        /\ artifacts' = IF outcome = "changed"
                        THEN RulesWritten(Cleared(artifacts))
                        ELSE Cleared(artifacts)
        /\ upc' = IF outcome = "failed" THEN "format" ELSE "promote"
    /\ UNCHANGED <<force, hostArch, latest>>
    /\ UNCHANGED extractVars

\* promoteGenerated
PromoteGenerated ==
    /\ upc = "promote"
    /\ steps' = Append(steps, "promote")
    /\ artifacts' = IF fileExists(artifacts, DROID_GENERATED)
                    THEN [artifacts EXCEPT ![DROID_JS] = artifacts[DROID_GENERATED]]
                    ELSE artifacts
    /\ upc' = "format"
    /\ UNCHANGED <<force, hostArch, latest>>
    /\ UNCHANGED extractVars

\* biome format --write on one file
Formatted(files, name) == [files EXCEPT ![name].formatted = TRUE]

\* main: maybeFormat(DROID_JS), and maybeFormat(DROID_OLD) if it exists
Format ==
    /\ upc = "format"
    /\ steps' = Append(steps, "format")
    /\ \E biome \in {"ok", "missing", "error"} :
        /\ artifacts' = IF biome # "ok" THEN artifacts
                        ELSE IF fileExists(artifacts, DROID_OLD)
                        THEN Formatted(Formatted(artifacts, DROID_JS), DROID_OLD)
                        ELSE Formatted(artifacts, DROID_JS)
        /\ upc' = IF biome = "error" THEN "failed" ELSE "snapshot"
    /\ UNCHANGED <<force, hostArch, latest>>
    /\ UNCHANGED extractVars

\* writeVersionSnapshot
WriteVersionSnapshot ==
    /\ upc = "snapshot"
    /\ steps' = Append(steps, "snapshot")
    /\ artifacts' = [artifacts EXCEPT ![VERSION_FILE] =
                        Snapshot(latest, resolveArchitecture(hostArch))]
    /\ upc' = "done"
    /\ UNCHANGED <<force, hostArch, latest>>
    /\ UNCHANGED extractVars

\* the version files an update run can find
VersionFiles ==
    {Absent, NotJson}
    \cup {Snapshot(v, a) : v \in 0..MaxVersion, a \in {"", "x64", "arm64"}}

\* artifacts/ as an earlier run (or nobody) left it; the files of an earlier run
\* carry version 0, which no download of this run carries
InitialArtifacts ==
    {[name \in ArtifactFiles |->
        CASE name = VERSION_FILE -> vf
          [] name = DROID_JS -> IF earlier THEN FileOf("generated", 0, "", "") ELSE Absent
          [] name = DROID_RAW -> IF earlier THEN FileOf("dump", 0, "", "") ELSE Absent
          [] name = DROID_GENERATED -> IF stale THEN FileOf("generated", 0, "", "") ELSE Absent
          [] OTHER -> Absent] :
     vf \in VersionFiles, earlier \in BOOLEAN, stale \in BOOLEAN}

InitUpdate ==
    /\ ExtractIdle
    /\ upc = "start"
    /\ force \in BOOLEAN
    /\ hostArch \in {"x64", "amd64", "arm64", "ia32"}
    /\ latest \in 0..MaxVersion
    /\ artifacts \in InitialArtifacts
    /\ steps = << >>

NextUpdate ==
    \/ ResolveArchitecture
    \/ FetchInstallerScript
    \/ CheckCurrentVersion
    \/ Download
    \/ RunExtractor
    \/ RotateArtifacts
    \/ RunApplyRules
    \/ PromoteGenerated
    \/ Format
    \/ WriteVersionSnapshot

SpecUpdate == InitUpdate /\ [][NextUpdate]_vars

----------------------------------------------------------------------------
(* Claims about path reconstruction, checked under SpecPath.               *)

\* the path chooseRelativePath returns for the module the loop is about to take
NextRelPath ==
    chooseRelativePath(win32, parsed.modules[index + 1], index, usedPaths).path

\* the records taken by the loop so far: 1..index
KeyOf(i) == ToLowerCase(FinalPath(win32, parsed.modules[i], i - 1))
SameKeyUpTo(i) == {j \in 1..i : KeyOf(j) = KeyOf(i)}

\* C1: the relative paths returned in one run are pairwise distinct when
\* compared case-insensitively, so the N modules get N distinct content files.
C1_PathsPairwiseDistinct ==
    \A i, j \in 1..Len(metadata) :
        i # j => ToLowerCase(metadata[i].relativePath) # ToLowerCase(metadata[j].relativePath)

\* the segments of a relative path, split at every separator
SegmentsOf(rel) == SplitOn(rel, {47, 92})

SafeRelPath(rel) ==
    /\ rel # << >>
    /\ \A k \in 1..Len(SegmentsOf(rel)) :
        SegmentsOf(rel)[k] # << >> /\ SegmentsOf(rel)[k] # <<46, 46>>
    /\ ~IsAbsolute(win32, rel)
    /\ InsideOutput(Resolve(win32, resolvedOutput, rel))

EtcPasswd == <<101, 116, 99>> \o PathSep(win32) \o <<112, 97, 115, 115, 119, 100>>

\* C2: every resolved relative path has no empty segment, no ".." segment and is
\* not absolute, its target stays inside the output directory, every file written
\* is strictly inside the output directory, and "../../etc/passwd" resolves to
\* "etc/passwd" (joined by path.sep).
C2_PathStaysInside ==
    /\ (pc = "module" /\ index < Len(parsed.modules)) => SafeRelPath(NextRelPath)
    /\ \A i \in 1..Len(metadata) : SafeRelPath(metadata[i].relativePath)
    /\ \A i \in 1..Len(writes) :
        InsideOutput(writes[i].target) /\ writes[i].target # resolvedOutput
    /\ \A i \in 1..Len(metadata) :
        (metadata[i].originalPath = PathEscape /\ SameKeyUpTo(i) = {i})
            => metadata[i].relativePath = EtcPasswd
    /\ "escape" \in {errors[i] : i \in 1..Len(errors)} => pc = "failed"

\* C2 witness: a module whose virtual path is "../../etc/passwd" was written to
\* etc/passwd under the output directory.
C2_Witness ==
    \E i \in 1..Len(writes) :
        /\ writes[i].kind = "content"
        /\ parsed.modules[writes[i].module + 1].originalPath = PathEscape
        /\ writes[i].target = resolvedOutput \o << <<101, 116, 99>>, <<112, 97, 115, 115, 119, 100>> >>

\* name.ext with the number k put before the extension
Numbered(path, k) == WithCount(path, k, ExtName(win32, path))

\* C8: the first record resolving (case-insensitively) to a path gets it
\* unchanged, the k-th (k >= 2) gets it with ".k" put before the extension, in
\* record order, and the usedPaths count of a path is the number of records that
\* resolved to it so far; two records resolving to a/b.js yield a/b.js, a/b.2.js.
C8_CollisionNumbering ==
    pc \in {"module", "done"} =>
        /\ Len(metadata) = index
        /\ \A i \in 1..index :
            LET final == FinalPath(win32, parsed.modules[i], i - 1)
                k     == Cardinality(SameKeyUpTo(i))
            IN  /\ metadata[i].relativePath = IF k = 1 THEN final ELSE Numbered(final, k)
                /\ usedPaths[KeyOf(i)] = Cardinality({j \in 1..index : KeyOf(j) = KeyOf(i)})
                /\ (final = <<97>> \o PathSep(win32) \o <<98, 46, 106, 115>> /\ k = 2)
                      => metadata[i].relativePath
                           = <<97>> \o PathSep(win32) \o <<98, 46, 50, 46, 106, 115>>
        /\ DOMAIN usedPaths = {KeyOf(i) : i \in 1..index}

\* C8 witness: three records resolved to a/b.js and the third one was named a/b.3.js.
C8_Witness ==
    /\ pc = "done"
    /\ Len(metadata) = 3
    /\ \A i \in 1..3 : KeyOf(i) = <<97>> \o PathSep(win32) \o <<98, 46, 106, 115>>
    /\ metadata[3].relativePath = <<97>> \o PathSep(win32) \o <<98, 46, 51, 46, 106, 115>>

\* ".bin"
DotBin == <<46, 98, 105, 110>>

\* the extension the fallback name is to carry for a loader tag
ClaimedExt(loader) ==
    IF loader \in (DOMAIN loaderDefaultExtensions) \ {5}
    THEN loaderDefaultExtensions[loader] ELSE DotBin

\* C13: a record whose sanitized path is empty is named "module-" and its index
\* padded to 4 digits, with the extension of its loader tag; a loader tag that
\* is not in the table, and the file loader tag 5, give ".bin".
C13_FallbackNaming ==
    \A i \in 1..Len(metadata) :
        (sanitizeModulePath(parsed.modules[i].originalPath) = << >> /\ SameKeyUpTo(i) = {i})
            => metadata[i].relativePath
                 = ModuleName(i - 1) \o ClaimedExt(parsed.modules[i].loader)

----------------------------------------------------------------------------
(* Claims about locating, parsing and writing, checked under Spec.         *)

\* a strategy returned a blob
Located ==
    /\ pc \notin {"locate", "fallback"}
    /\ ~(pc = "failed" /\ errors \in {<<"no section and no trailer">>, <<"RangeError">>})

\* parseStandalone returned
ParseReturned ==
    \/ pc \in {"write", "module", "done"}
    \/ pc = "failed" /\ errors \in {<<"io">>, <<"escape">>}

\* the damage that makes a bundle structurally inconsistent
StructuralFaults ==
    {"no trailer", "blob too short", "trailer first", "byteCount too large",
     "byteCount unsafe", "modules end", "stride", "argv pointer"}
RecordFaults == {"name pointer", "contents pointer", "sourcemap pointer", "bytecode pointer"}

Damaged ==
    \/ bundle.fault \in StructuralFaults
    \/ bundle.fault \in RecordFaults /\ Len(bundle.modules) > 0

\* C3: a structural failure of locating or parsing aborts the run with an error
\* before any directory is created or any file is written, and leaves no
\* partial module list; every damaged input ends so.
C3_ParseFailureWritesNothing ==
    /\ ~ParseReturned =>
        /\ writes = << >>
        /\ mkdirs = << >>
        /\ metadata = << >>
        /\ parsed.modules = << >>
    /\ (Damaged /\ pc \notin {"locate", "fallback", "parse"}) =>
        /\ pc = "failed"
        /\ Len(errors) = 1
        /\ ~ParseReturned

\* C3 witness: a module table that ends past byteCount was rejected by
\* parseStandalone, and nothing was written.
C3_Witness ==
    /\ bundle.fault = "modules end"
    /\ pc = "failed"
    /\ errors = <<"module table out of range">>
    /\ writes = << >>
    /\ mkdirs = << >>

\* an intact bundle in a container one of the strategies recognises
Intact ==
    /\ bundle.fault = "none"
    /\ bundle.lengthFault = "none"
    /\ bundle.container \in {"pe", "pe then trailer", "pe and trailer", "trailer"}

\* what parseStandalone must return for the bundle the input was encoded from
RoundTrips ==
    /\ pc = "failed" => errors = <<"io">>
    /\ ParseReturned =>
        /\ Len(parsed.modules) = Len(bundle.modules)
        /\ \A i \in 1..Len(bundle.modules) : parsed.modules[i] = bundle.modules[i]
        /\ parsed.entryPointId = bundle.entryPointId
        /\ parsed.compileExecArgv = bundle.compileExecArgv
    /\ \A i \in 1..Len(writes) :
        writes[i].kind = "content" =>
            writes[i].data = bundle.modules[writes[i].module + 1].contents

\* C4 (as claimed): every bundle encoded in the payload layout, with either
\* record stride, is parsed back to the same records in the same order, and
\* writeOutputs writes each module's contents unchanged.
C4_RoundTripAnyStride == Intact => RoundTrips

\* the record array cannot be read with the other stride
UnambiguousStride ==
    \/ bundle.stride = MODULE_RECORD_SIZE
    \/ Len(bundle.modules) = 0
    \/ (Len(bundle.modules) * ALTERNATE_SIZE) % MODULE_RECORD_SIZE # 0

\* C4 (amended): the round trip holds for bundles encoded with 40-byte records,
\* and for bundles encoded with 36-byte records unless their record array is
\* as long as a whole number of 40-byte records.
C4_RoundTrip == (Intact /\ UnambiguousStride) => RoundTrips

\* C4 witness: a two-module bundle of 36-byte records was parsed back and both
\* content files were written.
C4_Witness ==
    /\ Intact
    /\ bundle.stride = ALTERNATE_SIZE
    /\ Len(bundle.modules) = 2
    /\ bundle.modules[1] # bundle.modules[2]
    /\ pc = "done"
    /\ parsed.modules = bundle.modules
    /\ Cardinality({i \in 1..Len(writes) : writes[i].kind = "content"}) = 2

\* C5: the trailing-blob strategy is attempted only after the section strategy
\* threw, never after it returned (even when the payload then fails to parse),
\* and when both fail exactly one error is raised, naming both.
C5_StrategyOrder ==
    /\ strategies \in {<< >>, <<"section">>, <<"section", "trailer">>}
    /\ pc = "locate" <=> strategies = << >>
    /\ pc = "fallback" => strategies = <<"section">>
    /\ Len(strategies) = 2 => ~extractBunSection(fileBytes).ok
    /\ (pc # "locate" /\ extractBunSection(fileBytes).ok)
          => strategies = <<"section">> /\ embedded = extractBunSection(fileBytes).value
    /\ (pc \notin {"locate", "fallback"} /\ ~extractBunSection(fileBytes).ok
          /\ extractTrailerAppendedBlob(fileBytes).kind # "blob")
          => pc = "failed" /\ errors = <<"no section and no trailer">>
    /\ Len(errors) <= 1

\* C5 witness: the section strategy threw, the trailing-blob strategy returned
\* the blob, and the run completed.
C5_Witness ==
    /\ strategies = <<"section", "trailer">>
    /\ pc = "done"
    /\ Len(bundle.modules) > 0

\* the stride parseStandalone chose (r: its locals) is the stride the length calls for
StrideFits(r) ==
    /\ r.ok
    /\ (r.modulesPtr.length % 40 = 0) => r.recordSize = 40
    /\ (r.modulesPtr.length % 40 # 0) =>
          /\ r.modulesPtr.length % 36 = 0
          /\ r.recordSize = 36
          /\ r.recordCount * 36 = r.modulesPtr.length
    /\ r.recordCount * r.recordSize = r.modulesPtr.length
    /\ Len(parsed.modules) = r.recordCount

\* C6: a module array whose length is a multiple of 40 is read with stride 40,
\* one whose length is a multiple of 36 only is read with stride 36 and parsed
\* successfully, recordCount * stride is the length, and a length that is a
\* multiple of neither fails the parse.
C6_StrideSelection ==
    /\ ParseReturned => StrideFits(parseStandalone(embedded))
    /\ (Intact /\ bundle.stride = 36 /\ Len(bundle.modules) * 36 % 40 # 0
          /\ pc \notin {"locate", "fallback", "parse"}) => ParseReturned
    /\ (bundle.fault = "stride" /\ Located /\ pc # "parse") =>
        /\ pc = "failed"
        /\ errors = <<"unknown record size">>

\* a module array of 36 bytes was read with stride 36 into one record
LegacySingle(r) ==
    /\ r.modulesPtr.length = 36
    /\ r.recordSize = 36
    /\ Len(parsed.modules) = 1

\* C6 witness: a module array of 36 bytes was parsed with stride 36 into one record.
C6_Witness == ParseReturned /\ LegacySingle(parseStandalone(embedded))

\* the pointer at offset field of record i (from 1) of the module array (r: the
\* locals of parseStandalone)
RecordPointer(r, i, field) ==
    readPointer(embedded, r.modulesPtr.offset + (i - 1) * r.recordSize + field)

\* the optional artifact a pointer of the located blob stands for
ArtifactAt(ptr) ==
    IF ptr.length = 0 THEN Null
    ELSE Some(SubSeq(embedded, ptr.offset + 1, ptr.offset + ptr.length))

\* the writes of one kind made for module ix (from 0)
WritesOf(kind, ix) == {k \in 1..Len(writes) : writes[k].kind = kind /\ writes[k].module = ix}

\* the flag of a manifest entry and the sibling file of its module agree
SiblingAgrees(i, kind, suffix, artifact, flag) ==
    /\ flag = artifact.present
    /\ flag <=> WritesOf(kind, i - 1) # {}
    /\ \A k \in WritesOf(kind, i - 1) :
        /\ writes[k].data = artifact.bytes
        /\ \E c \in WritesOf("content", i - 1) :
              writes[k].target = WithSuffix(writes[c].target, suffix)
    /\ Cardinality(WritesOf(kind, i - 1)) <= 1

\* every record's optional artifacts are what its pointers stand for
ArtifactsDecoded(r) ==
    \A i \in 1..Len(parsed.modules) :
        /\ parsed.modules[i].sourcemap = ArtifactAt(RecordPointer(r, i, 16))
        /\ parsed.modules[i].bytecode = ArtifactAt(RecordPointer(r, i, 24))

\* C7: a zero-length source-map (bytecode) pointer decodes to null, gives the
\* manifest flag false and no sibling write for that module; a nonzero-length
\* pointer in range gives the very slice, written to the sibling file, and the
\* flag true.
C7_OptionalArtifacts ==
    /\ ParseReturned => ArtifactsDecoded(parseStandalone(embedded))
    /\ \A i \in 1..Len(metadata) :
        /\ SiblingAgrees(i, "map", MapSuffix, parsed.modules[i].sourcemap,
                         metadata[i].hasSourcemap)
        /\ SiblingAgrees(i, "bytecode", BytecodeSuffix, parsed.modules[i].bytecode,
                         metadata[i].hasBytecode)

\* C7 witness: a run completed with a module that has a source map and one
\* that has none.
C7_Witness ==
    /\ pc = "done"
    /\ Len(metadata) = 2
    /\ metadata[1].hasSourcemap /\ ~metadata[2].hasSourcemap
    /\ WritesOf("map", 0) # {} /\ WritesOf("map", 1) = {}

\* the length field of a trailing blob: the last 8 bytes of the file
LengthField == GetBigUint64(fileBytes, Len(fileBytes) - 8)

ContainsTrailer(bytes) ==
    \E i \in 1..(Len(bytes) - Len(TRAILER_BYTES) + 1) :
        SubSeq(bytes, i, i + Len(TRAILER_BYTES) - 1) = TRAILER_BYTES

\* the trailing-blob strategy returned a blob
TrailerReturned == Len(strategies) = 2 /\ Located

\* C9: the trailing-blob strategy returns only if the length field T is not 0,
\* at most the file length L and a safe integer, L - 8 - T >= 0 and the slice
\* file[L-8-T : L-8] holds the trailer marker; the blob is exactly that slice;
\* otherwise it rejects without raising.
C9_TrailingBlob ==
    /\ TrailerReturned =>
        /\ Len(fileBytes) >= 8
        /\ ~BigIsZero(LengthField)
        /\ LengthField.hi = 0
        /\ LengthField.lo <= Len(fileBytes)
        /\ Len(fileBytes) - 8 - LengthField.lo >= 0
        /\ embedded = SubSeq(fileBytes, Len(fileBytes) - 8 - LengthField.lo + 1,
                             Len(fileBytes) - 8)
        /\ Len(embedded) = LengthField.lo
        /\ ContainsTrailer(embedded)
    /\ (Len(strategies) = 2 /\ ~Located) =>
        /\ pc = "failed"
        /\ errors = <<"no section and no trailer">>
        /\ embedded = << >>

\* C9 witness: the trailing-blob strategy returned the blob appended to a host
\* that is no PE file.
C9_Witness ==
    /\ TrailerReturned
    /\ bundle.container = "trailer"
    /\ bundle.lengthFault = "none"
    /\ embedded = SubSeq(fileBytes, Len(HostStub) + 1, Len(fileBytes) - 8)

\* the byte range of a pointer lies inside the first n bytes
RangeInside(ptr, n) == ptr.offset <= n /\ ptr.length <= n - ptr.offset

\* the bytes a pointer of the located blob stands for
BytesAt(ptr) == SubSeq(embedded, ptr.offset + 1, ptr.offset + ptr.length)

\* what parseStandalone returned for record i was read inside the payload
\* (r: the locals of parseStandalone)
RecordInside(r, i) ==
    /\ \A field \in {0, 8, 16, 24} :
        RecordPointer(r, i, field).length > 0
            => RangeInside(RecordPointer(r, i, field), r.byteCount)
    /\ parsed.modules[i].originalPath = TextDecode(BytesAt(RecordPointer(r, i, 0)))
    /\ parsed.modules[i].contents = BytesAt(RecordPointer(r, i, 8))
    /\ parsed.modules[i].sourcemap.bytes = BytesAt(RecordPointer(r, i, 16))
    /\ parsed.modules[i].bytecode.bytes = BytesAt(RecordPointer(r, i, 24))

PointersInside(r) ==
    /\ r.ok
    /\ r.byteCount <= Len(embedded)
    /\ RangeInside(r.modulesPtr, r.byteCount)
    /\ \A i \in 1..Len(parsed.modules) : RecordInside(r, i)
    /\ r.argvPtr.length > 0 => RangeInside(r.argvPtr, r.byteCount)
    /\ parsed.compileExecArgv = TextDecode(BytesAt(r.argvPtr))

\* a pointer of nonzero length was made to end one byte past byteCount
PointerPastEnd ==
    \/ bundle.fault \in RecordFaults /\ Len(bundle.modules) > 0
    \/ bundle.fault = "argv pointer"

\* C14: after a successful parse byteCount is at most the blob length, the
\* module array ends within byteCount, and every byte range returned for a
\* module or for argv lies within blob[0:byteCount]; a pointer of nonzero
\* length that ends past byteCount fails the parse, and a pointer of length 0
\* is not dereferenced whatever its offset.
C14_PointerBounds ==
    /\ ParseReturned => PointersInside(parseStandalone(embedded))
    /\ (PointerPastEnd /\ Located /\ pc # "parse") =>
        /\ pc = "failed"
        /\ errors = <<"pointer out of range">>
        /\ writes = << >>
    /\ (bundle.fault = "far empty pointer" /\ bundle.lengthFault = "none"
          /\ bundle.container \in {"pe", "trailer"} /\ UnambiguousStride
          /\ pc \notin {"locate", "fallback", "parse"}) =>
        /\ ParseReturned
        /\ parsed.modules = bundle.modules
        /\ parsed.compileExecArgv = bundle.compileExecArgv

\* record 1 has a source-map pointer of length 0 that points past byteCount
FarSourcemap(r) ==
    /\ RecordPointer(r, 1, 16).length = 0
    /\ RecordPointer(r, 1, 16).offset > r.byteCount

\* C14 witness: a bundle whose first record has a zero-length source-map pointer
\* far outside the payload was parsed and written, the source map being null.
C14_Witness ==
    /\ pc = "done"
    /\ bundle.fault = "far empty pointer"
    /\ Len(parsed.modules) > 0
    /\ FarSourcemap(parseStandalone(embedded))
    /\ parsed.modules[1].sourcemap = Null

\* the writes of the manifest, and the writes made for modules
ManifestWrites == {k \in 1..Len(writes) : writes[k].kind = "manifest"}
ModuleWrites == {k \in 1..Len(writes) : writes[k].kind \in {"content", "map", "bytecode"}}

\* the rank of a module file among the files of its module
KindRank(kind) == CASE kind = "content" -> 1 [] kind = "map" -> 2 [] OTHER -> 3

\* modules are written one at a time in record order: content, then siblings
InRecordOrder ==
    \A j, k \in ModuleWrites :
        j < k => \/ writes[j].module < writes[k].module
                 \/ /\ writes[j].module = writes[k].module
                    /\ KindRank(writes[j].kind) < KindRank(writes[k].kind)

\* entry i of a manifest has index i (from 0) and describes record i
Describes(entry, i) ==
    /\ entry.index = i - 1
    /\ entry.originalPath = parsed.modules[i].originalPath
    /\ entry.loader = parsed.modules[i].loader
    /\ entry.encoding = parsed.modules[i].encoding
    /\ entry.moduleFormat = parsed.modules[i].moduleFormat
    /\ entry.side = parsed.modules[i].side
    /\ entry.hasSourcemap = parsed.modules[i].sourcemap.present
    /\ entry.hasBytecode = parsed.modules[i].bytecode.present

\* every file of record i was written
FilesWritten(i) ==
    /\ WritesOf("content", i - 1) # {}
    /\ parsed.modules[i].sourcemap.present => WritesOf("map", i - 1) # {}
    /\ parsed.modules[i].bytecode.present => WritesOf("bytecode", i - 1) # {}

\* write k, of the manifest, is the last write, follows the files of all the
\* records and lists them
ManifestLast(k) ==
    /\ k = Len(writes)
    /\ pc = "done"
    /\ \A i \in 1..Len(parsed.modules) : FilesWritten(i)
    /\ Len(writes[k].data.modules) = Len(parsed.modules)
    /\ \A i \in 1..Len(parsed.modules) : Describes(writes[k].data.modules[i], i)

----------------------------------------------------------------------------
(* Claims about the update run, checked under SpecUpdate.                  *)

\* main has just decided whether to return early
AtDecision == upc \in {"skipped", "download"}

\* the version file records version v
RecordsVersion(v) ==
    artifacts[VERSION_FILE].kind = "snapshot" /\ artifacts[VERSION_FILE].version = v

\* the version file records architecture a
RecordsArchitecture(a) ==
    artifacts[VERSION_FILE].kind = "snapshot" /\ artifacts[VERSION_FILE].arch = a

\* a run that returned early requested the installer script and did nothing else
NothingDone ==
    /\ steps = <<"installer">>
    /\ ~fileExists(artifacts, DROID_EXE)
    /\ ~fileExists(artifacts, METADATA_JSON)
    /\ ~fileExists(artifacts, DROID_OLD)

Last(seq) == seq[Len(seq)]

\* rotation and rule application are over, formatting has not begun
BeforeFormat == upc = "format"

\* runApplyRules returned true: promoteGenerated was called
RulesSucceeded == Last(steps) = "promote"

\* the droid.generated.js an earlier run left behind
StaleGenerated == FileOf("generated", 0, "", "")

\* the droid.generated.js apply-rules writes in this run
GeneratedNow == FileOf("generated", latest, "", "")

\* droid.js is what rotation put there, and droid.raw.js is its copy
KeptRaw ==
    /\ artifacts[DROID_JS] = artifacts[DROID_RAW]
    /\ artifacts[DROID_RAW].kind \in {"dump", "binary"}
    /\ artifacts[DROID_RAW].version = latest

Rotated == "rotate" \in {steps[i] : i \in 1..Len(steps)} /\ ~(upc = "failed" /\ Last(steps) = "rotate")

\* C16: droid.exe becomes droid.js and droid.raw.js only when the dump wrote a
\* droid.exe module; when the bundle holds no such module rotateArtifacts
\* fails, and the downloaded executable itself is never droid.js or droid.raw.js.
C16_RotationGuard ==
    /\ artifacts[DROID_JS].kind # "binary"
    /\ artifacts[DROID_RAW].kind # "binary"
    /\ Rotated => artifacts[DROID_RAW].kind = "dump"

----------------------------------------------------------------------------
(* Claims about prefix stripping, checked under SpecPrefix.                *)

\* the known set of virtual-root prefixes, in list order: the code units allowed
\* before the literal (none when empty), the literal, whether the pattern
\* ignores letter case, and whether the last code unit may repeat
KnownPrefixes == <<
    [first |-> {66, 98}, lit |-> TildeBunRoot, fold |-> TRUE,  plus |-> FALSE],
    [first |-> Letters,  lit |-> TildeBunRoot, fold |-> TRUE,  plus |-> FALSE],
    [first |-> {},       lit |-> BunfsRoot,    fold |-> FALSE, plus |-> FALSE],
    [first |-> {66, 98}, lit |-> TildeBun,     fold |-> TRUE,  plus |-> FALSE],
    [first |-> Letters,  lit |-> TildeBun,     fold |-> TRUE,  plus |-> FALSE],
    [first |-> {},       lit |-> Bunfs,        fold |-> FALSE, plus |-> FALSE],
    [first |-> {},       lit |-> DotSlash,     fold |-> FALSE, plus |-> TRUE],
    [first |-> {},       lit |-> RootSlash,    fold |-> FALSE, plus |-> FALSE],
    [first |-> {},       lit |-> SlashRoot,    fold |-> FALSE, plus |-> FALSE] >>

\* the number of code units before the literal of the known prefix p
Lead(p) == IF p.first = {} THEN 0 ELSE 1

\* rel begins with the known prefix p; blind: letter case is ignored for every prefix
BeginsWith(p, rel, blind) ==
    /\ Len(rel) >= Lead(p) + Len(p.lit)
    /\ p.first # {} => rel[1] \in p.first
    /\ IF p.fold \/ blind
       THEN ToLowerCase(SubSeq(rel, Lead(p) + 1, Lead(p) + Len(p.lit))) = ToLowerCase(p.lit)
       ELSE SubSeq(rel, Lead(p) + 1, Lead(p) + Len(p.lit)) = p.lit

\* rel without the known prefix p it begins with
Without(p, rel) ==
    IF p.plus
    THEN StripLeading(DropFirst(rel, Lead(p) + Len(p.lit)), {47})
    ELSE DropFirst(rel, Lead(p) + Len(p.lit))

\* every known prefix, from k on, tested once in list order against the running result
RECURSIVE StrippedOnce(_, _, _)
StrippedOnce(rel, k, blind) ==
    IF k > Len(KnownPrefixes) THEN rel
    ELSE StrippedOnce(IF BeginsWith(KnownPrefixes[k], rel, blind)
                      THEN Without(KnownPrefixes[k], rel) ELSE rel, k + 1, blind)

\* the prefix stage of sanitizeModulePath did to the path of record i what the
\* known-prefix list calls for, and a path left as "x.js" was written as x.js
PrefixesStripped(i, blind) ==
    /\ StripPrefixes(metadata[i].originalPath, 1)
          = StrippedOnce(metadata[i].originalPath, 1, blind)
    /\ StrippedOnce(metadata[i].originalPath, 1, blind) = PathXJs
          => metadata[i].relativePath = PathXJs

\* C12 (as claimed): every known prefix is removed whatever its letter case,
\* each pattern tested once in list order against the running result.
C12_PrefixesAnyCase == \A i \in 1..Len(metadata) : PrefixesStripped(i, TRUE)

\* C12 (amended): each pattern is tested once in list order against the running
\* result, so several prefixes can be stripped and none twice; letter case is
\* ignored for the drive-letter "~BUN" mounts only, while "/$bunfs/",
\* "/$bunfs/root/", "./", "root/" and "/root/" are removed only as written.
C12_PrefixStripping == \A i \in 1..Len(metadata) : PrefixesStripped(i, FALSE)

\* C12 witness: "b:/~bun/ROOT/" and then "root/" were stripped from
\* "b:/~bun/ROOT/root/x.js", and the module was written as x.js.
C12_Witness ==
    /\ pc = "done"
    /\ Len(metadata) = 1
    /\ metadata[1].originalPath
          = <<98, 58, 47, 126, 98, 117, 110, 47, 82, 79, 79, 84, 47>> \o RootSlash \o PathXJs
    /\ metadata[1].relativePath = PathXJs

====
